---- MODULE Spec2Model ----
(***************************************************************************)
(* Model of the test-execution engine TestRunner::run                      *)
(* (src/TestFramework.cpp) together with the TestCase / TestSuite data     *)
(* model and the assertion macros of src/TestFramework.h.                  *)
(*                                                                         *)
(* Threads of the program are "executors": executor 0 is the thread that   *)
(* called run(); executors 1..numThreads are the pool workers of the       *)
(* concurrent branch. A timed test body runs on the thread created by      *)
(* std::async; that thread is represented by the "body" field of the       *)
(* executor that launched it.                                              *)
(***************************************************************************)
EXTENDS Integers, Sequences, FiniteSets, TLC

\* ---------------------------------------------------------------- bounds
MaxUnits == 2       \* units per suite
MaxHw == 1          \* std::thread::hardware_concurrency() reports 0..MaxHw
MaxCalls == 3       \* calls in the log of a mock

\* ------------------------------------------------------- exception kinds
\* What a test body can raise: nothing, two classes derived from
\* std::exception, or a throwable that is not a std::exception.
Kinds == {"none", "runtime_error", "logic_error", "int"}

IsStdException(k) == k \in {"runtime_error", "logic_error"}

\* typeid(e).name() of the dynamic type of a caught std::exception
\* (Itanium ABI mangled spelling).
TypeidName(k) ==
    CASE k = "runtime_error" -> "St13runtime_error"
      [] k = "logic_error"   -> "St11logic_error"
      [] OTHER               -> "?"

\* #exceptionType as stored by EXPECT_EXCEPTION_TEST_CASE: the source
\* spelling of the type.
Stringify(k) ==
    CASE k = "runtime_error" -> "std::runtime_error"
      [] k = "logic_error"   -> "std::logic_error"
      [] OTHER               -> "?"

\* ------------------------------------------------------------ test cases
\* The callable of a TestCase: it sleeps `sleep` ms, then performs `checks`
\* failing ASSERT_TRUE/ASSERT_EQ checks when the repetition index is in
\* failReps, increments a member of the fixture when `writes`, then returns
\* or throws `throws`.
PassingBody == [sleep |-> 0, checks |-> 0, failReps |-> {}, throws |-> "none",
                writes |-> FALSE]

\* class TestCase with its default member initialisers.
DefaultTestCase ==
    [ disabled |-> FALSE, timeout |-> 0, repetitions |-> 1,
      expectedExceptionTypeName |-> "", concurrent |-> FALSE,
      isNondeterministic |-> FALSE, function |-> PassingBody ]

AllReps == 1..3

\* The tests of src/TestFrameworkTests.cpp.
TestSimplePass == DefaultTestCase
TestSimpleFail ==
    [DefaultTestCase EXCEPT !.function.checks = 1, !.function.failReps = AllReps]
TestDisabledCheck ==
    [DefaultTestCase EXCEPT !.disabled = TRUE,
                            !.function.checks = 1, !.function.failReps = AllReps]
TestExpectedException ==
    [DefaultTestCase EXCEPT !.expectedExceptionTypeName = Stringify("runtime_error"),
                            !.function.throws = "runtime_error"]
TestUnexpectedException ==
    [DefaultTestCase EXCEPT !.function.throws = "logic_error"]
TestTimeoutCase ==
    [DefaultTestCase EXCEPT !.timeout = 200, !.function.sleep = 500]
TestRepeatedMixed ==
    [DefaultTestCase EXCEPT !.repetitions = 3,
                            !.function.checks = 1, !.function.failReps = {2}]

\* Further test cases a user can register (fields of TestCase are public).
TestCatalogue ==
    { TestSimplePass, TestSimpleFail, TestDisabledCheck, TestExpectedException,
      TestUnexpectedException, TestTimeoutCase, TestRepeatedMixed,
      \* two failing checks in one body
      [DefaultTestCase EXCEPT !.function.checks = 2, !.function.failReps = AllReps],
      \* two failing checks, then a throw
      [DefaultTestCase EXCEPT !.function.checks = 2, !.function.failReps = AllReps,
                              !.function.throws = "logic_error"],
      \* repeated, always passing
      [DefaultTestCase EXCEPT !.repetitions = 2],
      \* throws something that is not a std::exception
      [DefaultTestCase EXCEPT !.function.throws = "int"],
      \* expected exception never thrown
      [DefaultTestCase EXCEPT !.expectedExceptionTypeName = Stringify("runtime_error")],
      \* expected exception, another std::exception thrown
      [TestExpectedException EXCEPT !.function.throws = "logic_error"],
      \* expected exception, a non-std throwable thrown
      [TestExpectedException EXCEPT !.function.throws = "int"],
      \* expectedExceptionTypeName set to typeid(std::runtime_error).name()
      [TestExpectedException EXCEPT !.expectedExceptionTypeName = TypeidName("runtime_error")],
      \* timed, body finishes in time
      [DefaultTestCase EXCEPT !.timeout = 200],
      \* timed, in time, expected exception never thrown
      [DefaultTestCase EXCEPT !.timeout = 200,
                              !.expectedExceptionTypeName = Stringify("runtime_error")],
      \* timed out, body fails a check after its sleep
      [TestTimeoutCase EXCEPT !.function.checks = 1, !.function.failReps = AllReps],
      \* timed out, expected exception never thrown
      [TestTimeoutCase EXCEPT !.expectedExceptionTypeName = Stringify("runtime_error")],
      \* timed out, body throws after its sleep
      [TestTimeoutCase EXCEPT !.function.throws = "logic_error"],
      \* timed out, body increments a member of the fixture after its sleep
      [TestTimeoutCase EXCEPT !.function.writes = TRUE],
      \* repetitions below 1
      [DefaultTestCase EXCEPT !.repetitions = 0],
      [DefaultTestCase EXCEPT !.repetitions = 0, !.isNondeterministic = TRUE],
      \* nondeterministic single repetition, CONCURRENT_TEST_CASE
      [DefaultTestCase EXCEPT !.isNondeterministic = TRUE, !.concurrent = TRUE] }

\* Units that may accompany the unit under study in a suite.
PlainCases == { TestSimplePass, TestDisabledCheck }

\* TestSuite::testCases: units in insertion order (addTestCase appends).
\* Each suite holds at most one unit outside PlainCases.
SuiteUnits ==
    { s \in UNION { [1..n -> TestCatalogue] : n \in 1..MaxUnits } :
        Cardinality({ i \in DOMAIN s : s[i] \notin PlainCases }) <= 1 }

\* A TestSuite. REGISTER_TEST_SUITE gives every suite a fixture; a suite
\* built by hand may have a null fixture pointer: such suites are taken with
\* one unit, whose body does not use the fixture.
TestSuites ==
    { s \in { [fixture |-> f, testCases |-> u] : f \in BOOLEAN, u \in SuiteUnits } :
        s.fixture \/ ( /\ Len(s.testCases) = 1
                       /\ ~s.testCases[1].function.writes ) }

\* TestRunner::suites after static registration (addTestSuite appends): one
\* suite, or two suites of one unit each, at most one of them outside
\* PlainCases.
Registries ==
    { <<s>> : s \in TestSuites } \cup
    { r \in { <<s, t>> : s, t \in { x \in TestSuites : Len(x.testCases) = 1 } } :
        r[1].testCases[1] \in PlainCases \/ r[2].testCases[1] \in PlainCases }


\* ------------------------------------------------------------------ state
MaxThreads == IF MaxHw < 2 THEN 2 ELSE MaxHw   \* largest pool the bounds allow

Workers == 1..MaxThreads
Executors == 0..MaxThreads      \* 0: the thread that called run()

VARIABLES
    suites,           \* TestRunner::suites
    runConcurrently,  \* argument of run()
    pc,               \* position of the thread that called run()
    si,               \* index of the suite the for loop of run() is at
    ui,               \* index of the test case the inner for loop is at
    rep,              \* repetition counter of the enqueue / sequential loop
    numThreads,       \* pool size of the current suite
    taskQueue,        \* std::queue of closures, each <<unit, rep>>
    done,             \* shutdown flag of the pool
    ex,               \* per executor: position and locals of runTest
    out,              \* std::cout: the report lines written so far
    hooks,            \* number of calls of each fixture hook, per
                      \* <<hook, suite, unit, rep>> (unit = rep = 0: suite hooks)
    results,          \* testPassed of each task at the end of runTest, per
                      \* <<suite, unit, rep>>
    invoked,          \* number of calls of testCase.function per <<suite, unit, rep>>
    exitCode,         \* value returned by main(), -1 while it has not returned
    callLog,          \* Mock::callLog of one mock object
    sharedCounter     \* per suite: the int member of its fixture that bodies increment

vars == <<suites, runConcurrently, pc, si, ui, rep, numThreads, taskQueue, done,
          ex, out, hooks, results, invoked, exitCode, callLog, sharedCounter>>

\* An executor that is not running a task.
Idle(p) == [ pc |-> p, unit |-> 0, rep |-> 0, exceptionCaught |-> FALSE,
             testPassed |-> TRUE, body |-> "none", checksLeft |-> 0 ]

Init ==
    /\ suites \in Registries
    /\ runConcurrently \in BOOLEAN
    /\ pc = "run"
    /\ si = 1
    /\ ui = 1
    /\ rep = 1
    /\ numThreads = 0
    /\ taskQueue = <<>>
    /\ done = FALSE
    /\ ex = [e \in Executors |-> Idle(IF e = 0 THEN "caller" ELSE "notStarted")]
    /\ out = <<>>
    /\ hooks = <<>>
    /\ results = <<>>
    /\ invoked = <<>>
    /\ exitCode = -1
    /\ callLog = <<>>
    /\ sharedCounter = [s \in DOMAIN suites |-> 0]

Suite == suites[si]
Case(u) == Suite.testCases[u]

\* Lines whose statement is not inside a std::lock_guard of coutMutex: the
\* suite header and the blank line of run(), and the line of the ASSERT_TRUE
\* and ASSERT_EQ macros, which write to std::cout directly.
WrittenWithoutLock == { "RunningTestSuite", "Blank", "AssertionFailed" }

\* A line of std::cout. unit and rep identify the task the line belongs to
\* (0 for lines of the suite); shown is the repetition index printed in the
\* line, 0 when the line prints none; locked tells whether the writer held
\* coutMutex; torn tells whether the pieces of the line are mixed with the
\* pieces of a line another thread wrote at the same time.
Line(kind, u, r, shown) ==
    [kind |-> kind, suite |-> si, unit |-> u, rep |-> r, shown |-> shown,
     locked |-> kind \notin WrittenWithoutLock, torn |-> FALSE]

\* hooks after `if (suite->fixture) suite->fixture->hook();` on behalf of
\* task <<u, r>>; with a null fixture nothing is called.
CallHook(hook, u, r) ==
    LET h == <<hook, si, u, r>> IN
    IF ~Suite.fixture THEN hooks
    ELSE IF h \in DOMAIN hooks THEN [hooks EXCEPT ![h] = @ + 1]
    ELSE hooks @@ (h :> 1)

\* ------------------------------------------------- run(): suite bracket
\* Mutant of SuiteBegin: the suite is entered without the call of BeforeAll.
SuiteBeginNoBeforeAll ==
    /\ pc = "run"
    /\ si <= Len(suites)
    /\ out' = Append(out, Line("RunningTestSuite", 0, 0, 0))
    /\ pc' = IF runConcurrently THEN "startThreads" ELSE "seq"
    /\ ui' = 1
    /\ rep' = 1
    /\ UNCHANGED <<suites, callLog, sharedCounter, runConcurrently, si, numThreads, taskQueue, done, ex,
                   hooks, results, invoked, exitCode>>

\* for (auto& suite : suites): suite header and BeforeAll.
SuiteBegin ==
    /\ pc = "run"
    /\ si <= Len(suites)
    /\ out' = Append(out, Line("RunningTestSuite", 0, 0, 0))
    /\ hooks' = CallHook("BeforeAll", 0, 0)
    /\ pc' = IF runConcurrently THEN "startThreads" ELSE "seq"
    /\ ui' = 1
    /\ rep' = 1
    /\ UNCHANGED <<suites, callLog, sharedCounter, runConcurrently, si, numThreads, taskQueue, done, ex,
                   results, invoked, exitCode>>

\* AfterAll, the blank line, and on to the next suite.
AfterAll ==
    /\ pc = "afterAll"
    /\ hooks' = CallHook("AfterAll", 0, 0)
    /\ out' = Append(out, Line("Blank", 0, 0, 0))
    /\ si' = si + 1
    /\ pc' = "run"
    /\ UNCHANGED <<suites, callLog, sharedCounter, runConcurrently, ui, rep, numThreads, taskQueue, done, ex,
                   results, invoked, exitCode>>

\* Mutant of RunReturn: run() empties the registry when it returns.
RunReturnClears ==
    /\ pc = "run"
    /\ si > Len(suites)
    /\ pc' = "returned"
    /\ suites' = <<>>
    /\ UNCHANGED <<callLog, sharedCounter, runConcurrently, si, ui, rep, numThreads, taskQueue, done,
                   ex, out, hooks, results, invoked, exitCode>>

\* run() returns after the last suite.
RunReturn ==
    /\ pc = "run"
    /\ si > Len(suites)
    /\ pc' = "returned"
    /\ UNCHANGED <<suites, callLog, sharedCounter, runConcurrently, si, ui, rep, numThreads, taskQueue, done,
                   ex, out, hooks, results, invoked, exitCode>>

\* main() of demo_main.cpp: `return 0;` whatever run() reported.
MainReturn ==
    /\ pc = "returned"
    /\ exitCode' = 0
    /\ pc' = "exited"
    /\ UNCHANGED <<suites, callLog, sharedCounter, runConcurrently, si, ui, rep, numThreads, taskQueue, done,
                   ex, out, hooks, results, invoked>>

\* ------------------------------------------------ run(): concurrent branch
\* Mutant of NumThreads: a pool of at least two threads.
NumThreadsAtLeastTwo(h) == IF h < 2 THEN 2 ELSE h

\* Pool size for a reported hardware concurrency h.
NumThreads(h) == IF h = 0 THEN 2 ELSE h

\* unsigned int numThreads = std::thread::hardware_concurrency();
HardwareConcurrency ==
    /\ pc = "startThreads"
    /\ \E h \in 0..MaxHw : numThreads' = h
    /\ pc' = "createPool"
    /\ UNCHANGED <<suites, callLog, sharedCounter, runConcurrently, si, ui, rep, taskQueue, done, ex, out, hooks,
                   results, invoked, exitCode>>

\* The fallback of numThreads; pool, queue and flag are created and the
\* workers are started.
\* Mutant of StartThreads: one thread more than numThreads is created.
StartThreadsOneMore ==
    /\ pc = "createPool"
    /\ numThreads' = NumThreads(numThreads)
    /\ ex' = [e \in Executors |->
                IF e = 0 THEN ex[0]
                ELSE IF e <= NumThreads(numThreads) + 1 THEN Idle("wait")
                ELSE Idle("notStarted")]
    /\ taskQueue' = <<>>
    /\ done' = FALSE
    /\ pc' = "enqueue"
    /\ UNCHANGED <<suites, callLog, sharedCounter, runConcurrently, si, ui, rep, out, hooks, results, invoked,
                   exitCode>>

StartThreads ==
    /\ pc = "createPool"
    /\ numThreads' = NumThreads(numThreads)
    /\ ex' = [e \in Executors |->
                IF e = 0 THEN ex[0]
                ELSE IF e <= NumThreads(numThreads) THEN Idle("wait")
                ELSE Idle("notStarted")]
    /\ taskQueue' = <<>>
    /\ done' = FALSE
    /\ pc' = "enqueue"
    /\ UNCHANGED <<suites, callLog, sharedCounter, runConcurrently, si, ui, rep, out, hooks, results, invoked,
                   exitCode>>

\* Mutant of EnqueueSkip: the skip message without the `continue`.
EnqueueSkipNoContinue ==
    /\ pc = "enqueue"
    /\ ui <= Len(Suite.testCases)
    /\ Case(ui).disabled
    /\ out' = out \o <<Line("Skipping", ui, 0, 0)>>
    /\ taskQueue' = Append(taskQueue, <<ui, 1>>)
    /\ ui' = ui + 1
    /\ UNCHANGED <<suites, callLog, sharedCounter, runConcurrently, pc, si, rep, numThreads, done, ex, hooks,
                   results, invoked, exitCode>>

\* if (testCase.disabled) { print; continue; }
EnqueueSkip ==
    /\ pc = "enqueue"
    /\ ui <= Len(Suite.testCases)
    /\ Case(ui).disabled
    /\ out' = out \o <<Line("Skipping", ui, 0, 0)>>
    /\ ui' = ui + 1
    /\ UNCHANGED <<suites, callLog, sharedCounter, runConcurrently, pc, si, rep, numThreads, taskQueue, done,
                   ex, hooks, results, invoked, exitCode>>

\* Condition of line 148: one task per repetition.
FanOut(tc) == tc.isNondeterministic \/ tc.repetitions > 1

\* Mutant of EnqueueRepetition: the closure sees the loop counter as it is
\* after the increment.
EnqueueRepetitionOffByOne ==
    /\ pc = "enqueue"
    /\ ui <= Len(Suite.testCases)
    /\ ~Case(ui).disabled
    /\ FanOut(Case(ui))
    /\ rep <= Case(ui).repetitions
    /\ taskQueue' = Append(taskQueue, <<ui, rep + 1>>)
    /\ IF rep + 1 <= Case(ui).repetitions
         THEN rep' = rep + 1 /\ ui' = ui
         ELSE rep' = 1 /\ ui' = ui + 1
    /\ UNCHANGED <<suites, callLog, sharedCounter, runConcurrently, pc, si, numThreads, done, ex, out, hooks,
                   results, invoked, exitCode>>

\* One pass of the loop of lines 150-156: push the closure of repetition rep.
EnqueueRepetition ==
    /\ pc = "enqueue"
    /\ ui <= Len(Suite.testCases)
    /\ ~Case(ui).disabled
    /\ FanOut(Case(ui))
    /\ rep <= Case(ui).repetitions
    /\ taskQueue' = Append(taskQueue, <<ui, rep>>)
    /\ IF rep + 1 <= Case(ui).repetitions
         THEN rep' = rep + 1 /\ ui' = ui
         ELSE rep' = 1 /\ ui' = ui + 1
    /\ UNCHANGED <<suites, callLog, sharedCounter, runConcurrently, pc, si, numThreads, done, ex, out, hooks,
                   results, invoked, exitCode>>

\* The loop of lines 150-156 when its condition is false at entry.
EnqueueNothing ==
    /\ pc = "enqueue"
    /\ ui <= Len(Suite.testCases)
    /\ ~Case(ui).disabled
    /\ FanOut(Case(ui))
    /\ rep > Case(ui).repetitions
    /\ rep' = 1
    /\ ui' = ui + 1
    /\ UNCHANGED <<suites, callLog, sharedCounter, runConcurrently, pc, si, numThreads, taskQueue, done, ex,
                   out, hooks, results, invoked, exitCode>>

\* Lines 157-164: a single closure, runTest(1).
EnqueueSingle ==
    /\ pc = "enqueue"
    /\ ui <= Len(Suite.testCases)
    /\ ~Case(ui).disabled
    /\ ~FanOut(Case(ui))
    /\ taskQueue' = Append(taskQueue, <<ui, 1>>)
    /\ ui' = ui + 1
    /\ UNCHANGED <<suites, callLog, sharedCounter, runConcurrently, pc, si, rep, numThreads, done, ex, out,
                   hooks, results, invoked, exitCode>>

\* Mutant of SignalDone: run() goes on to join without setting done.
SignalDoneNotSet ==
    /\ pc = "enqueue"
    /\ ui > Len(Suite.testCases)
    /\ pc' = "join"
    /\ UNCHANGED <<suites, callLog, sharedCounter, runConcurrently, si, ui, rep, numThreads, taskQueue,
                   done, ex, out, hooks, results, invoked, exitCode>>

\* done = true; cv.notify_all();
SignalDone ==
    /\ pc = "enqueue"
    /\ ui > Len(Suite.testCases)
    /\ done' = TRUE
    /\ pc' = "join"
    /\ UNCHANGED <<suites, callLog, sharedCounter, runConcurrently, si, ui, rep, numThreads, taskQueue, ex,
                   out, hooks, results, invoked, exitCode>>

\* Mutant of Join: run() goes on without waiting for the threads of the pool.
JoinNoWait ==
    /\ pc = "join"
    /\ pc' = "afterAll"
    /\ UNCHANGED <<suites, callLog, sharedCounter, runConcurrently, si, ui, rep, numThreads, taskQueue, done,
                   ex, out, hooks, results, invoked, exitCode>>

\* thread.join() for every thread of the pool; the block ends and its
\* locals (numThreads, threadPool, taskQueue, done) are destroyed.
Join ==
    /\ pc = "join"
    /\ \A w \in 1..numThreads : ex[w].pc = "exited"
    /\ pc' = "afterAll"
    /\ numThreads' = 0
    /\ done' = FALSE
    /\ ex' = [e \in Executors |-> IF e = 0 THEN ex[0] ELSE Idle("notStarted")]
    /\ UNCHANGED <<suites, callLog, sharedCounter, runConcurrently, si, ui, rep, taskQueue, out, hooks, results,
                   invoked, exitCode>>

\* A task as runTest starts on it.
StartTask(u, r) == [ pc |-> "beforeEach", unit |-> u, rep |-> r,
                     exceptionCaught |-> FALSE, testPassed |-> TRUE,
                     body |-> "none", checksLeft |-> 0 ]

\* Mutant of WorkerDequeue: the worker takes the task pushed last.
WorkerDequeueLast(w) ==
    /\ ex[w].pc = "wait"
    /\ \A v \in 1..(w - 1) : ex[v].pc # "wait"
    /\ taskQueue # <<>>
    /\ ex' = [ex EXCEPT ![w] = StartTask(taskQueue[Len(taskQueue)][1],
                                         taskQueue[Len(taskQueue)][2])]
    /\ taskQueue' = SubSeq(taskQueue, 1, Len(taskQueue) - 1)
    /\ UNCHANGED <<suites, callLog, sharedCounter, runConcurrently, pc, si, ui, rep, numThreads, done, out,
                   hooks, results, invoked, exitCode>>

\* worker: the wait is over with a task in the queue; pop it and call it.
\* The workers that wait are interchangeable (same code, no locals): of
\* several, the one with the lowest index is taken to be the one that pops.
WorkerDequeue(w) ==
    /\ ex[w].pc = "wait"
    /\ \A v \in 1..(w - 1) : ex[v].pc # "wait"
    /\ taskQueue # <<>>
    /\ ex' = [ex EXCEPT ![w] = StartTask(Head(taskQueue)[1], Head(taskQueue)[2])]
    /\ taskQueue' = Tail(taskQueue)
    /\ UNCHANGED <<suites, callLog, sharedCounter, runConcurrently, pc, si, ui, rep, numThreads, done, out,
                   hooks, results, invoked, exitCode>>

\* Mutant of WorkerExit: the worker returns as soon as done is set.
WorkerExitOnDone(w) ==
    /\ ex[w].pc = "wait"
    /\ done
    /\ ex' = [ex EXCEPT ![w] = Idle("exited")]
    /\ UNCHANGED <<suites, callLog, sharedCounter, runConcurrently, pc, si, ui, rep, numThreads, taskQueue,
                   done, out, hooks, results, invoked, exitCode>>

\* worker: if (done && taskQueue.empty()) return;
WorkerExit(w) ==
    /\ ex[w].pc = "wait"
    /\ done
    /\ taskQueue = <<>>
    /\ ex' = [ex EXCEPT ![w] = Idle("exited")]
    /\ UNCHANGED <<suites, callLog, sharedCounter, runConcurrently, pc, si, ui, rep, numThreads, taskQueue,
                   done, out, hooks, results, invoked, exitCode>>

\* ------------------------------------------------ run(): sequential branch
\* if (testCase.disabled) { print; continue; }
SeqSkip ==
    /\ pc = "seq"
    /\ ui <= Len(Suite.testCases)
    /\ Case(ui).disabled
    /\ out' = out \o <<Line("Skipping", ui, 0, 0)>>
    /\ ui' = ui + 1
    /\ UNCHANGED <<suites, callLog, sharedCounter, runConcurrently, pc, si, rep, numThreads, taskQueue, done,
                   ex, hooks, results, invoked, exitCode>>

\* int repetitions = testCase.repetitions; if (repetitions < 1) repetitions = 1;
SeqRepetitions(tc) == IF tc.repetitions < 1 THEN 1 ELSE tc.repetitions

\* Mutant of SeqBeginTask: the repetitions are run from the last to the first.
SeqBeginTaskDescending ==
    /\ pc = "seq"
    /\ ui <= Len(Suite.testCases)
    /\ ~Case(ui).disabled
    /\ rep <= SeqRepetitions(Case(ui))
    /\ ex' = [ex EXCEPT ![0] = StartTask(ui, SeqRepetitions(Case(ui)) - rep + 1)]
    /\ pc' = "seqTask"
    /\ UNCHANGED <<suites, callLog, sharedCounter, runConcurrently, si, ui, rep, numThreads, taskQueue, done,
                   out, hooks, results, invoked, exitCode>>

\* The body of the repetition loop is entered for repetition rep.
SeqBeginTask ==
    /\ pc = "seq"
    /\ ui <= Len(Suite.testCases)
    /\ ~Case(ui).disabled
    /\ rep <= SeqRepetitions(Case(ui))
    /\ ex' = [ex EXCEPT ![0] = StartTask(ui, rep)]
    /\ pc' = "seqTask"
    /\ UNCHANGED <<suites, callLog, sharedCounter, runConcurrently, si, ui, rep, numThreads, taskQueue, done,
                   out, hooks, results, invoked, exitCode>>

\* The loop over the test cases of the suite is over.
SeqEnd ==
    /\ pc = "seq"
    /\ ui > Len(Suite.testCases)
    /\ pc' = "afterAll"
    /\ UNCHANGED <<suites, callLog, sharedCounter, runConcurrently, si, ui, rep, numThreads, taskQueue, done,
                   ex, out, hooks, results, invoked, exitCode>>

\* ------------------------------------------------------ one task (runTest)
\* The executor e is inside a task.
InTask(e) == ex[e].pc \in {"beforeEach", "printRunning", "execute", "inline",
                           "waitFor", "futureDtor", "checkExpected", "afterEach"}

\* suite->fixture->BeforeEach();
BeforeEach(e) ==
    /\ ex[e].pc = "beforeEach"
    /\ hooks' = CallHook("BeforeEach", ex[e].unit, ex[e].rep)
    /\ ex' = [ex EXCEPT ![e].pc = "printRunning"]
    /\ UNCHANGED <<suites, callLog, sharedCounter, runConcurrently, pc, si, ui, rep, numThreads, taskQueue,
                   done, out, results, invoked, exitCode>>

\* Mutant of ShownRepetition: the suffix is always printed.
ShownRepetitionAlways(tc, r) == r

\* The repetition suffix of the "Running Test Case" line: printed when
\* repetitions > 1 (the clamped value in the sequential branch).
ShownRepetition(tc, r) == IF tc.repetitions > 1 THEN r ELSE 0

\* "Running Test Case: <name>[ (Repetition <rep>)]" under coutMutex, then the
\* locals exceptionCaught and testPassed are initialised.
PrintRunning(e) ==
    /\ ex[e].pc = "printRunning"
    /\ out' = out \o <<Line("Running", ex[e].unit, ex[e].rep,
                            ShownRepetition(Case(ex[e].unit), ex[e].rep))>>
    /\ ex' = [ex EXCEPT ![e].pc = "execute",
                        ![e].exceptionCaught = FALSE,
                        ![e].testPassed = TRUE]
    /\ UNCHANGED <<suites, callLog, sharedCounter, runConcurrently, pc, si, ui, rep, numThreads, taskQueue,
                   done, hooks, results, invoked, exitCode>>

\* Failing checks the body performs when called with repetition r.
FailingChecks(tc, r) == IF r \in tc.function.failReps THEN tc.function.checks ELSE 0

\* invoked after one more call of the body of task t.
Called(t) == IF t \in DOMAIN invoked
               THEN [invoked EXCEPT ![t] = @ + 1]
               ELSE invoked @@ (t :> 1)

\* timeout == 0: executeTest() is called on the executor's own thread.
RunInline(e) ==
    /\ ex[e].pc = "execute"
    /\ Case(ex[e].unit).timeout = 0
    /\ ex' = [ex EXCEPT ![e].pc = "inline",
                        ![e].body = "running",
                        ![e].checksLeft = FailingChecks(Case(ex[e].unit), ex[e].rep)]
    /\ invoked' = Called(<<si, ex[e].unit, ex[e].rep>>)
    /\ UNCHANGED <<suites, callLog, sharedCounter, runConcurrently, pc, si, ui, rep, numThreads, taskQueue,
                   done, out, hooks, results, exitCode>>

\* timeout > 0: std::async(std::launch::async, executeTest), then wait_for.
LaunchAsync(e) ==
    /\ ex[e].pc = "execute"
    /\ Case(ex[e].unit).timeout > 0
    /\ ex' = [ex EXCEPT ![e].pc = "waitFor",
                        ![e].body = "running",
                        ![e].checksLeft = FailingChecks(Case(ex[e].unit), ex[e].rep)]
    /\ invoked' = Called(<<si, ex[e].unit, ex[e].rep>>)
    /\ UNCHANGED <<suites, callLog, sharedCounter, runConcurrently, pc, si, ui, rep, numThreads, taskQueue,
                   done, out, hooks, results, exitCode>>

\* The body outlasts the wait: it sleeps longer than the timeout.
Outlasts(tc) == tc.timeout > 0 /\ tc.function.sleep > tc.timeout

\* The body is past its sleep: a body that outlasts the wait gets there only
\* after wait_for has returned timeout.
PastSleep(e) == Outlasts(Case(ex[e].unit)) => ex[e].pc # "waitFor"

\* Mutant of BodyCheck: the failing check writes its line and returns from
\* the body.
BodyCheckReturns(e) ==
    /\ ex[e].body = "running"
    /\ PastSleep(e)
    /\ ex[e].checksLeft > 0
    /\ out' = out \o <<Line("AssertionFailed", ex[e].unit, ex[e].rep, 0)>>
    /\ ex' = [ex EXCEPT ![e].checksLeft = 0,
                        ![e].body = "finished",
                        ![e].pc = IF @ = "inline" THEN "checkExpected" ELSE @]
    /\ UNCHANGED <<suites, callLog, sharedCounter, runConcurrently, pc, si, ui, rep, numThreads, taskQueue,
                   done, hooks, results, invoked, exitCode>>

\* Thread f is at a statement that writes a line: the "Running test" line
\* of runTest, or a failing check of its body.
AtWrite(f) ==
    \/ ex[f].pc = "printRunning"
    \/ ex[f].body = "running" /\ ex[f].checksLeft > 0 /\ PastSleep(f)

\* The macros write their line by a chain of operator<< on std::cout without
\* coutMutex: when another thread is at a writing statement too, the pieces
\* of the two lines may or may not come out mixed.
TornChoices(e) ==
    IF \E f \in Executors \ {e} : AtWrite(f) THEN BOOLEAN ELSE {FALSE}

\* ASSERT_TRUE / ASSERT_EQ failing inside the body: the line is written and
\* the body goes on.
BodyCheck(e) ==
    /\ ex[e].body = "running"
    /\ PastSleep(e)
    /\ ex[e].checksLeft > 0
    /\ \E t \in TornChoices(e) :
         out' = out \o <<[Line("AssertionFailed", ex[e].unit, ex[e].rep, 0)
                            EXCEPT !.torn = t]>>
    /\ ex' = [ex EXCEPT ![e].checksLeft = @ - 1]
    /\ UNCHANGED <<suites, callLog, sharedCounter, runConcurrently, pc, si, ui, rep, numThreads, taskQueue,
                   done, hooks, results, invoked, exitCode>>

\* The catch clauses of executeTest for a body of tc that raised k
\* ("none": it returned): the line written, whether exceptionCaught is set,
\* and whether testPassed is cleared.
CatchClauses(tc, k) ==
    LET exceptionExpected == tc.expectedExceptionTypeName # "" IN
    IF k = "none" THEN
        [line |-> "", caught |-> FALSE, failed |-> FALSE]
    ELSE IF IsStdException(k) THEN
        IF ~exceptionExpected THEN
            [line |-> "UnexpectedException", caught |-> TRUE, failed |-> TRUE]
        ELSE IF TypeidName(k) # tc.expectedExceptionTypeName THEN
            [line |-> "UnexpectedExceptionType", caught |-> TRUE, failed |-> TRUE]
        ELSE
            [line |-> "", caught |-> TRUE, failed |-> FALSE]
    ELSE
        IF ~exceptionExpected THEN
            [line |-> "UnexpectedUnknownException", caught |-> TRUE, failed |-> TRUE]
        ELSE
            [line |-> "", caught |-> TRUE, failed |-> FALSE]

\* Mutant of BodyEnd: without the catch (...) clause a throwable that is
\* not a std::exception leaves executeTest and the process is terminated.
BodyEndNoCatchAll(e) ==
    /\ ex[e].body = "running"
    /\ PastSleep(e)
    /\ ex[e].checksLeft = 0
    /\ LET k == Case(ex[e].unit).function.throws
           c == CatchClauses(Case(ex[e].unit), k) IN
         IF k # "none" /\ ~IsStdException(k)
           THEN /\ pc' = "exited"
                /\ exitCode' = 134
                /\ UNCHANGED <<ex, out>>
           ELSE /\ out' = IF c.line = "" THEN out
                          ELSE out \o <<Line(c.line, ex[e].unit, ex[e].rep, 0)>>
                /\ ex' = [ex EXCEPT ![e].body = "finished",
                                    ![e].exceptionCaught = c.caught,
                                    ![e].testPassed = IF c.failed THEN FALSE ELSE @,
                                    ![e].pc = IF @ = "inline" THEN "checkExpected" ELSE @]
                /\ UNCHANGED <<pc, exitCode>>
    /\ sharedCounter' = IF Case(ex[e].unit).function.writes
                          THEN [sharedCounter EXCEPT ![si] = @ + 1]
                          ELSE sharedCounter
    /\ UNCHANGED <<suites, callLog, runConcurrently, si, ui, rep, numThreads, taskQueue,
                   done, hooks, results, invoked>>

\* The body does its increment of the fixture's member (fixture->sharedCounter++
\* under the fixture's mutex), returns or throws, and executeTest finishes.
BodyEnd(e) ==
    /\ ex[e].body = "running"
    /\ PastSleep(e)
    /\ ex[e].checksLeft = 0
    /\ LET c == CatchClauses(Case(ex[e].unit), Case(ex[e].unit).function.throws) IN
         /\ out' = IF c.line = "" THEN out
                   ELSE out \o <<Line(c.line, ex[e].unit, ex[e].rep, 0)>>
         /\ ex' = [ex EXCEPT ![e].body = "finished",
                             ![e].exceptionCaught = c.caught,
                             ![e].testPassed = IF c.failed THEN FALSE ELSE @,
                             ![e].pc = IF @ = "inline" THEN "checkExpected" ELSE @]
    /\ sharedCounter' = IF Case(ex[e].unit).function.writes
                          THEN [sharedCounter EXCEPT ![si] = @ + 1]
                          ELSE sharedCounter
    /\ UNCHANGED <<suites, callLog, runConcurrently, pc, si, ui, rep, numThreads, taskQueue,
                   done, hooks, results, invoked, exitCode>>

\* Mutant of WaitLapse: the timeout stops the body.
WaitLapseCancels(e) ==
    /\ ex[e].pc = "waitFor"
    /\ ex[e].body = "running"
    /\ Outlasts(Case(ex[e].unit))
    /\ out' = out \o <<Line("TimedOut", ex[e].unit, ex[e].rep, 0)>>
    /\ ex' = [ex EXCEPT ![e].pc = "futureDtor", ![e].testPassed = FALSE,
                        ![e].body = "finished", ![e].checksLeft = 0]
    /\ UNCHANGED <<suites, callLog, sharedCounter, runConcurrently, pc, si, ui, rep, numThreads, taskQueue,
                   done, hooks, results, invoked, exitCode>>

\* wait_for returned std::future_status::timeout: the "timed out" line.
\* The future is destroyed at the end of the block.
WaitLapse(e) ==
    /\ ex[e].pc = "waitFor"
    /\ ex[e].body = "running"
    /\ Outlasts(Case(ex[e].unit))
    /\ out' = out \o <<Line("TimedOut", ex[e].unit, ex[e].rep, 0)>>
    /\ ex' = [ex EXCEPT ![e].pc = "futureDtor", ![e].testPassed = FALSE]
    /\ UNCHANGED <<suites, callLog, sharedCounter, runConcurrently, pc, si, ui, rep, numThreads, taskQueue,
                   done, hooks, results, invoked, exitCode>>

\* Mutant of WaitReady: the "timed out" line is written for every timed task.
WaitReadyReportsTimeout(e) ==
    /\ ex[e].pc = "waitFor"
    /\ ex[e].body = "finished"
    /\ out' = out \o <<Line("TimedOut", ex[e].unit, ex[e].rep, 0)>>
    /\ ex' = [ex EXCEPT ![e].pc = "checkExpected", ![e].testPassed = FALSE]
    /\ UNCHANGED <<suites, callLog, sharedCounter, runConcurrently, pc, si, ui, rep, numThreads, taskQueue,
                   done, hooks, results, invoked, exitCode>>

\* wait_for returned ready: future.get().
WaitReady(e) ==
    /\ ex[e].pc = "waitFor"
    /\ ex[e].body = "finished"
    /\ ex' = [ex EXCEPT ![e].pc = "checkExpected"]
    /\ UNCHANGED <<suites, callLog, sharedCounter, runConcurrently, pc, si, ui, rep, numThreads, taskQueue,
                   done, out, hooks, results, invoked, exitCode>>

\* Mutant of FutureDtor: the destructor does not wait for the body.
FutureDtorNoWait(e) ==
    /\ ex[e].pc = "futureDtor"
    /\ ex' = [ex EXCEPT ![e].pc = "checkExpected"]
    /\ UNCHANGED <<suites, callLog, sharedCounter, runConcurrently, pc, si, ui, rep, numThreads, taskQueue,
                   done, out, hooks, results, invoked, exitCode>>

\* Mutant of FutureDtor: the caller of run(false) does not wait for the body.
FutureDtorCallerNoWait(e) ==
    /\ ex[e].pc = "futureDtor"
    /\ e # 0 => ex[e].body = "finished"
    /\ ex' = [ex EXCEPT ![e].pc = "checkExpected"]
    /\ UNCHANGED <<suites, callLog, sharedCounter, runConcurrently, pc, si, ui, rep, numThreads, taskQueue,
                   done, out, hooks, results, invoked, exitCode>>

\* ~future() of a future obtained from std::async: it returns only when the
\* asynchronous call has completed.
FutureDtor(e) ==
    /\ ex[e].pc = "futureDtor"
    /\ ex[e].body = "finished"
    /\ ex' = [ex EXCEPT ![e].pc = "checkExpected"]
    /\ UNCHANGED <<suites, callLog, sharedCounter, runConcurrently, pc, si, ui, rep, numThreads, taskQueue,
                   done, out, hooks, results, invoked, exitCode>>

\* Mutant of CheckExpected: the test of exceptionCaught is inverted.
CheckExpectedInverted(e) ==
    /\ ex[e].pc = "checkExpected"
    /\ LET missing == /\ Case(ex[e].unit).expectedExceptionTypeName # ""
                      /\ ex[e].exceptionCaught IN
         /\ out' = IF missing
                   THEN out \o <<Line("ExpectedNotThrown", ex[e].unit, ex[e].rep, 0)>>
                   ELSE out
         /\ ex' = [ex EXCEPT ![e].pc = "afterEach",
                             ![e].testPassed = IF missing THEN FALSE ELSE @]
    /\ UNCHANGED <<suites, callLog, sharedCounter, runConcurrently, pc, si, ui, rep, numThreads, taskQueue,
                   done, hooks, results, invoked, exitCode>>

\* if (exceptionExpected && !exceptionCaught) { print; testPassed = false; }
CheckExpected(e) ==
    /\ ex[e].pc = "checkExpected"
    /\ LET missing == /\ Case(ex[e].unit).expectedExceptionTypeName # ""
                      /\ ~ex[e].exceptionCaught IN
         /\ out' = IF missing
                   THEN out \o <<Line("ExpectedNotThrown", ex[e].unit, ex[e].rep, 0)>>
                   ELSE out
         /\ ex' = [ex EXCEPT ![e].pc = "afterEach",
                             ![e].testPassed = IF missing THEN FALSE ELSE @]
    /\ UNCHANGED <<suites, callLog, sharedCounter, runConcurrently, pc, si, ui, rep, numThreads, taskQueue,
                   done, hooks, results, invoked, exitCode>>

\* The executor e after runTest has returned: its locals are gone and it is
\* at position p. The thread created by std::async is not stopped by that:
\* a body that were still running would go on running.
Released(e, p) ==
    IF ex[e].body = "running"
      THEN [ex[e] EXCEPT !.pc = p, !.exceptionCaught = FALSE, !.testPassed = TRUE]
      ELSE Idle(p)

\* Mutant of AfterEach: the hook is called only when testPassed is still true.
AfterEachOnlyOnPass(e) ==
    /\ ex[e].pc = "afterEach"
    /\ hooks' = IF ex[e].testPassed THEN CallHook("AfterEach", ex[e].unit, ex[e].rep)
                 ELSE hooks
    /\ results' = (<<si, ex[e].unit, ex[e].rep>> :> ex[e].testPassed) @@ results
    /\ ex' = [ex EXCEPT ![e] = Released(e, IF e = 0 THEN "caller" ELSE "wait")]
    /\ IF e = 0
         THEN /\ pc' = "seq"
              /\ IF rep + 1 <= SeqRepetitions(Case(ui))
                   THEN rep' = rep + 1 /\ ui' = ui
                   ELSE rep' = 1 /\ ui' = ui + 1
         ELSE UNCHANGED <<pc, ui, rep>>
    /\ UNCHANGED <<suites, callLog, sharedCounter, runConcurrently, si, numThreads, taskQueue, done, out,
                   invoked, exitCode>>

\* suite->fixture->AfterEach(); the task is over: a worker goes back to the
\* queue, the caller of run(false) to the head of its repetition loop.
AfterEach(e) ==
    /\ ex[e].pc = "afterEach"
    /\ hooks' = CallHook("AfterEach", ex[e].unit, ex[e].rep)
    /\ results' = (<<si, ex[e].unit, ex[e].rep>> :> ex[e].testPassed) @@ results
    /\ ex' = [ex EXCEPT ![e] = Released(e, IF e = 0 THEN "caller" ELSE "wait")]
    /\ IF e = 0
         THEN /\ pc' = "seq"
              /\ IF rep + 1 <= SeqRepetitions(Case(ui))
                   THEN rep' = rep + 1 /\ ui' = ui
                   ELSE rep' = 1 /\ ui' = ui + 1
         ELSE UNCHANGED <<pc, ui, rep>>
    /\ UNCHANGED <<suites, callLog, sharedCounter, runConcurrently, si, numThreads, taskQueue, done, out,
                   invoked, exitCode>>

\* ---------------------------------------------------------- specification
Next ==
    \/ SuiteBegin
    \/ HardwareConcurrency
    \/ StartThreads
    \/ EnqueueSkip
    \/ EnqueueRepetition
    \/ EnqueueNothing
    \/ EnqueueSingle
    \/ SignalDone
    \/ Join
    \/ SeqSkip
    \/ SeqBeginTask
    \/ SeqEnd
    \/ AfterAll
    \/ RunReturn
    \/ MainReturn
    \/ \E w \in Workers : WorkerDequeue(w) \/ WorkerExit(w)
    \/ \E e \in Executors :
         \/ BeforeEach(e)
         \/ PrintRunning(e)
         \/ RunInline(e)
         \/ LaunchAsync(e)
         \/ BodyCheck(e)
         \/ BodyEnd(e)
         \/ WaitLapse(e)
         \/ WaitReady(e)
         \/ FutureDtor(e)
         \/ CheckExpected(e)
         \/ AfterEach(e)

Spec == Init /\ [][Next]_vars

\* The units of the runs whose termination is studied: no task, one task,
\* one task per repetition, a body that ends by a throw, a body that
\* outlasts its timeout, a body that finishes within its timeout, and a
\* fan-out over no repetition at all.
TerminationCases ==
    { TestSimplePass, TestDisabledCheck, TestUnexpectedException, TestTimeoutCase,
      TestRepeatedMixed,
      [DefaultTestCase EXCEPT !.timeout = 200],
      [DefaultTestCase EXCEPT !.repetitions = 0, !.isNondeterministic = TRUE] }

\* A run on a registry of suites with a fixture, of these units.
FairInit ==
    /\ Init
    /\ \A s \in DOMAIN suites :
         /\ suites[s].fixture
         /\ \A u \in DOMAIN suites[s].testCases :
              suites[s].testCases[u] \in TerminationCases

\* Every body and hook terminates and the scheduler lets some thread that
\* can take a step take one: the run does not stop while a step is possible.
FairSpec == FairInit /\ [][Next]_vars /\ WF_vars(Next)

\* Units registered with a timeout of 200 ms: bodies that finish in time
\* (passing, failing a check, throwing, throwing the expected kind, not
\* throwing it, repeated, fanned out over no repetition, disabled) and the
\* body of TestTimeoutCase, which sleeps 500 ms.
TimedCases ==
    { [tc EXCEPT !.timeout = 200] :
        tc \in { TestSimplePass, TestSimpleFail, TestDisabledCheck, TestExpectedException,
                 TestUnexpectedException, TestRepeatedMixed,
                 [DefaultTestCase EXCEPT !.expectedExceptionTypeName = Stringify("runtime_error")],
                 [DefaultTestCase EXCEPT !.repetitions = 0, !.isNondeterministic = TRUE] } }
    \cup { TestTimeoutCase }

\* The same unit registered with TEST_CASE instead of TIMEOUT_TEST_CASE.
Untimed(tc) == [tc EXCEPT !.timeout = 0]

\* A run on one suite of two units: a timed unit and the same unit
\* without its timeout, in either order.
TimedInit ==
    /\ suites \in { <<[fixture |-> f, testCases |-> u]>> :
                       f \in BOOLEAN,
                       u \in UNION { { <<tc, Untimed(tc)>>, <<Untimed(tc), tc>> } :
                                      tc \in TimedCases } }
    /\ runConcurrently \in BOOLEAN
    /\ pc = "run"
    /\ si = 1
    /\ ui = 1
    /\ rep = 1
    /\ numThreads = 0
    /\ taskQueue = <<>>
    /\ done = FALSE
    /\ ex = [e \in Executors |-> Idle(IF e = 0 THEN "caller" ELSE "notStarted")]
    /\ out = <<>>
    /\ hooks = <<>>
    /\ results = <<>>
    /\ invoked = <<>>
    /\ exitCode = -1
    /\ callLog = <<>>
    /\ sharedCounter = [s \in DOMAIN suites |-> 0]

TimedSpec == TimedInit /\ [][Next]_vars

\* ---------------------------------------------------------------- Mock
\* The mock object of a test body, taken on its own: its operations are
\* applied in any order to a log of at most MaxCalls calls.
MethodNames == { "add3", "noArgsMethod" }

\* Argument lists as recordCall receives them: vectors of strings.
ArgLists == { <<>>, <<"1", "2", "3">>, <<"3", "2", "1">> }

\* Mock::clearExpectations: callLog.clear().
clearExpectations(log) == <<>>

\* Mutant of recordCall: the call is put at the front of the log.
recordCallAtFront(log, methodName, args) ==
    <<[methodName |-> methodName, args |-> args]>> \o log

\* Mock::recordCall: callLog.push_back({methodName, args}).
recordCall(log, methodName, args) ==
    Append(log, [methodName |-> methodName, args |-> args])

\* Mutant of verifyCall: the arguments are not compared.
verifyCallNameOnly(log, methodName, expectedArgs) ==
    \E i \in DOMAIN log : log[i].methodName = methodName

\* verifyCall: the loop over callLog, from the first call, returns true at
\* the first call with this name and these arguments.
RECURSIVE verifyCall(_, _, _)
verifyCall(log, methodName, expectedArgs) ==
    IF log = <<>> THEN FALSE
    ELSE IF Head(log).methodName = methodName /\ Head(log).args = expectedArgs
      THEN TRUE
      ELSE verifyCall(Tail(log), methodName, expectedArgs)

\* getCallCount: the loop over callLog counts the calls with this name.
RECURSIVE getCallCount(_, _)
getCallCount(log, methodName) ==
    IF log = <<>> THEN 0
    ELSE (IF Head(log).methodName = methodName THEN 1 ELSE 0)
         + getCallCount(Tail(log), methodName)

\* The engine is not running.
MockInit ==
    /\ callLog = <<>>
    /\ suites = <<>>
    /\ runConcurrently = FALSE
    /\ pc = "mock"
    /\ si = 1
    /\ ui = 1
    /\ rep = 1
    /\ numThreads = 0
    /\ taskQueue = <<>>
    /\ done = FALSE
    /\ ex = [e \in Executors |-> Idle(IF e = 0 THEN "caller" ELSE "notStarted")]
    /\ out = <<>>
    /\ hooks = <<>>
    /\ results = <<>>
    /\ invoked = <<>>
    /\ exitCode = -1
    /\ sharedCounter = <<>>

\* A mocked method is called: MOCK_METHOD records the call.
RecordCall ==
    /\ Len(callLog) < MaxCalls
    /\ \E methodName \in MethodNames, args \in ArgLists :
         callLog' = recordCall(callLog, methodName, args)
    /\ UNCHANGED <<suites, sharedCounter, runConcurrently, pc, si, ui, rep, numThreads, taskQueue,
                   done, ex, out, hooks, results, invoked, exitCode>>

\* The test calls clearExpectations().
ClearExpectations ==
    /\ callLog' = clearExpectations(callLog)
    /\ UNCHANGED <<suites, sharedCounter, runConcurrently, pc, si, ui, rep, numThreads, taskQueue,
                   done, ex, out, hooks, results, invoked, exitCode>>

MockNext == RecordCall \/ ClearExpectations

MockSpec == MockInit /\ [][MockNext]_vars

\* ================================================================ claims
\* The task a line, a result or a call belongs to is <<suite, unit, rep>>.
UnitOf(t) == suites[t[1]].testCases[t[2]]

\* Number of lines of the given kind written for task t.
NLines(kind, t) ==
    Cardinality({ i \in DOMAIN out : /\ out[i].kind = kind
                                     /\ out[i].suite = t[1]
                                     /\ out[i].unit = t[2]
                                     /\ out[i].rep = t[3] })

\* Number of lines of the given kind written for unit u of suite s.
NUnitLines(kind, s, u) ==
    Cardinality({ i \in DOMAIN out : /\ out[i].kind = kind
                                     /\ out[i].suite = s
                                     /\ out[i].unit = u })

\* The lines that classify a task as failed by an exception or a timeout.
FailureKinds == { "TimedOut", "UnexpectedException", "UnexpectedExceptionType",
                  "UnexpectedUnknownException", "ExpectedNotThrown" }

FailureKindsOf(t) == { k \in FailureKinds : NLines(k, t) > 0 }

\* The unit declares k as its expected kind: through
\* EXPECT_EXCEPTION_TEST_CASE, or by storing typeid(k).name() in the field.
Declares(tc, k) ==
    /\ IsStdException(k)
    /\ tc.expectedExceptionTypeName \in { Stringify(k), TypeidName(k) }

\* The body of the unit never fails a check and never throws.
NeverFails(tc) ==
    /\ tc.function.throws = "none"
    /\ \A r \in AllReps : FailingChecks(tc, r) = 0

\* -------------------------------------------------------------------- C1
\* AfterAll of the suite is about to be called, or has been called.
AfterAllReached ==
    \/ pc \in {"afterAll", "returned", "exited"}
    \/ pc = "run" /\ si > 1

\* C1: in both modes AfterAll starts only after every task of the suite has
\* finished: from the moment AfterAll is called no task is queued, no
\* executor is inside a task (BeforeEach, body, AfterEach), every worker has
\* exited, and no body is running, a timed-out one included.
C1_AfterAllAfterEveryTask ==
    AfterAllReached =>
        /\ taskQueue = <<>>
        /\ \A e \in Executors : ~InTask(e) /\ ex[e].body # "running"
        /\ \A w \in 1..numThreads : ex[w].pc = "exited"

\* A concurrent run reaches AfterAll after one of its tasks has timed out.
C1_Witness ==
    /\ pc = "afterAll"
    /\ runConcurrently
    /\ \E i \in DOMAIN out : out[i].kind = "TimedOut"

\* -------------------------------------------------------------------- C2
\* C2: every executed task is reported under at most one failure
\* classification (timed out, unexpected exception, expected exception not
\* thrown), never under two at once.
C2_ExactlyOneOutcome ==
    \A t \in DOMAIN results : Cardinality(FailureKindsOf(t)) <= 1

\* -------------------------------------------------------------------- C3
\* C3: a task whose body outlasts the timeout T > 0 has exactly one
\* "timed out" line and no "Assertion failed" line from its body.
C3_TimedOutBodyNotReported ==
    \A t \in DOMAIN results :
        Outlasts(UnitOf(t)) =>
            /\ NLines("TimedOut", t) = 1
            /\ NLines("AssertionFailed", t) = 0

\* -------------------------------------------------------------------- C4
\* C4: once the wait of a timed task has lapsed, the thread that ran the task
\* does not wait for the body: it can go on to the expected-failure check
\* while the body is still running.
C4_WaitBoundedByTimeout ==
    \A e \in Executors : ex[e].pc = "futureDtor" => ENABLED FutureDtor(e)

\* -------------------------------------------------------------------- C5
\* Some task of the run was reported as failed.
SomeTaskFailed ==
    \E i \in DOMAIN out : out[i].kind \in FailureKinds \cup {"AssertionFailed"}

\* C5: the exit code is zero if and only if no task was reported as
\* assertion-failed, unexpected-exception, expected-exception-missing or
\* timed-out.
C5_ExitCodeSignalsFailure ==
    pc = "exited" => (exitCode = 0 <=> ~SomeTaskFailed)

\* -------------------------------------------------------------------- C6
\* The loop over the test cases of suite s is past unit u.
LoopPast(s, u) == s < si \/ (s = si /\ pc # "run" /\ ui > u)

\* C6: a disabled unit has exactly one "Skipping Disabled Test Case" line once
\* the loop has passed it and none before, never a "Running Test Case" line;
\* its body is never invoked, no task is queued or run for it, and no
\* BeforeEach/AfterEach is called on its behalf.
C6_DisabledNeverRuns ==
    \A s \in DOMAIN suites : \A u \in DOMAIN suites[s].testCases :
        suites[s].testCases[u].disabled =>
            /\ NUnitLines("Skipping", s, u) = IF LoopPast(s, u) THEN 1 ELSE 0
            /\ NUnitLines("Running", s, u) = 0
            /\ \A t \in DOMAIN invoked : ~(t[1] = s /\ t[2] = u)
            /\ \A h \in DOMAIN hooks : ~(h[2] = s /\ h[3] = u)
            /\ \A t \in DOMAIN results : ~(t[1] = s /\ t[2] = u)
            /\ s = si => /\ \A i \in DOMAIN taskQueue : taskQueue[i][1] # u
                         /\ \A e \in Executors : InTask(e) => ex[e].unit # u

\* A concurrent run has ended in which a disabled unit was skipped and
\* another unit of the suite was run.
C6_Witness ==
    /\ pc = "exited"
    /\ runConcurrently
    /\ \E u \in DOMAIN suites[1].testCases :
         /\ suites[1].testCases[u].disabled
         /\ NUnitLines("Skipping", 1, u) = 1
    /\ \E i \in DOMAIN out : out[i].kind = "Running"

\* -------------------------------------------------------------------- C7
\* Number of "Running Test Case" lines of unit u of suite s that print
\* repetition index k (k = 0: no suffix).
NRunning(s, u, k) ==
    Cardinality({ i \in DOMAIN out : /\ out[i].kind = "Running"
                                     /\ out[i].suite = s
                                     /\ out[i].unit = u
                                     /\ out[i].shown = k })

\* C7 as stated: at the end of the run a non-disabled unit with
\* repetitions = N >= 1 whose body never fails has exactly N lines
\* "Running Test Case: <name> (Repetition k)", one for each k in 1..N, and no
\* "Assertion failed" line.
C7_RepetitionLines ==
    pc = "exited" =>
        \A s \in DOMAIN suites : \A u \in DOMAIN suites[s].testCases :
            LET tc == suites[s].testCases[u] IN
            (~tc.disabled /\ tc.repetitions >= 1 /\ NeverFails(tc)) =>
                /\ \A k \in 1..tc.repetitions : NRunning(s, u, k) = 1
                /\ NUnitLines("Running", s, u) = tc.repetitions
                /\ NUnitLines("AssertionFailed", s, u) = 0

\* C7 amended: such a unit has exactly N "Running Test Case" lines and no
\* "Assertion failed" line; for N >= 2 the lines carry "(Repetition k)", one
\* for each k in 1..N; for N = 1 the one line carries no repetition suffix.
\* During the run no line is repeated.
C7_RepetitionLinesAmended ==
    \A s \in DOMAIN suites : \A u \in DOMAIN suites[s].testCases :
        LET tc == suites[s].testCases[u] IN
        (~tc.disabled /\ tc.repetitions >= 1 /\ NeverFails(tc)) =>
            /\ \A k \in 0..tc.repetitions : NRunning(s, u, k) <= 1
            /\ NUnitLines("AssertionFailed", s, u) = 0
            /\ pc = "exited" =>
                 /\ NUnitLines("Running", s, u) = tc.repetitions
                 /\ tc.repetitions >= 2 =>
                      \A k \in 1..tc.repetitions : NRunning(s, u, k) = 1
                 /\ tc.repetitions = 1 => NRunning(s, u, 0) = 1

\* A concurrent run has ended in which a unit with two repetitions and a
\* body that never fails has printed both of its lines.
C7_Witness ==
    /\ pc = "exited"
    /\ runConcurrently
    /\ \E u \in DOMAIN suites[1].testCases :
         /\ ~suites[1].testCases[u].disabled
         /\ suites[1].testCases[u].repetitions = 2
         /\ NeverFails(suites[1].testCases[u])
         /\ NRunning(1, u, 1) = 1
         /\ NRunning(1, u, 2) = 1

\* -------------------------------------------------------------------- C8
\* The lines that report an exception-related failure of a task.
ExceptionFailureKinds == FailureKinds \ {"TimedOut"}

\* C8: a task whose unit declares an expected kind and whose body raises
\* exactly that kind has no "Unexpected exception ..." line and no
\* "Expected exception ... was not thrown" line.
C8_ExpectedKindSatisfied ==
    \A t \in DOMAIN results :
        Declares(UnitOf(t), UnitOf(t).function.throws) =>
            \A k \in ExceptionFailureKinds : NLines(k, t) = 0

\* -------------------------------------------------------------------- C9
\* C9: a task whose body raises a kind other than the declared one, or
\* raises anything when none is declared, has exactly one line
\* "Unexpected exception thrown in test '<name>'".
C9_UnexpectedReportedOnce ==
    \A t \in DOMAIN results :
        LET tc == UnitOf(t) IN
        (/\ tc.function.throws # "none"
         /\ \/ tc.expectedExceptionTypeName = ""
            \/ ~Declares(tc, tc.function.throws)) =>
            NLines("UnexpectedException", t) = 1

\* ------------------------------------------------------------------- C10
\* The unit expects an exception and its body completes, untimed or within
\* its timeout, without raising.
ExpectedButCompletes(tc) ==
    /\ tc.expectedExceptionTypeName # ""
    /\ tc.function.throws = "none"
    /\ ~Outlasts(tc)

\* C10: a task of such a unit has exactly one "Expected exception of type
\* ... was not thrown" line and ends with testPassed = false.
C10_ExpectedMissingReported ==
    \A t \in DOMAIN results :
        ExpectedButCompletes(UnitOf(t)) =>
            /\ NLines("ExpectedNotThrown", t) = 1
            /\ results[t] = FALSE

\* A task of a timed unit that expects an exception has completed within its
\* timeout without raising, in a concurrent run.
C10_Witness ==
    /\ runConcurrently
    /\ \E t \in DOMAIN results :
         /\ ExpectedButCompletes(UnitOf(t))
         /\ UnitOf(t).timeout > 0
         /\ NLines("ExpectedNotThrown", t) = 1

\* ---------------------------------------------------------------- C11
\* The lines the engine and the checks report about units and tasks.
ReportKinds == FailureKinds \cup { "Running", "Skipping", "AssertionFailed" }

\* C11: in concurrent mode every report line is written by a thread that
\* holds the output lock, and no thread is about to write a line without the
\* lock while another thread is about to write one.
C11_OutputSerialised ==
    runConcurrently =>
        /\ \A i \in DOMAIN out : out[i].kind \in ReportKinds => out[i].locked
        /\ \A e, f \in Executors :
              e # f => ~(ENABLED BodyCheck(e) /\ ENABLED PrintRunning(f))

\* ---------------------------------------------------------------- C12
\* The for loop of run() has entered suite s: its header is written and its
\* BeforeAll has been called.
Entered(s) == s < si \/ (s = si /\ pc # "run")

\* Number of calls of the suite hook h of suite s.
SuiteHookCalls(h, s) ==
    IF <<h, s, 0, 0>> \in DOMAIN hooks THEN hooks[<<h, s, 0, 0>>] ELSE 0

\* C12: suites run one at a time in registration order. No line of a suite
\* is followed by a line of an earlier one; a suite that has not been
\* entered has no hook call, line, body call or result; when a suite is
\* entered the AfterAll of the suite before it has been called; and between
\* two suites no task is queued, being run, or has its body running.
C12_SuitesOneAtATime ==
    /\ \A i \in 1..(Len(out) - 1) : out[i].suite <= out[i + 1].suite
    /\ \A s \in 1..Len(suites) :
          /\ ~Entered(s) =>
                /\ \A h \in DOMAIN hooks : h[2] # s
                /\ \A i \in DOMAIN out : out[i].suite # s
                /\ \A t \in DOMAIN invoked \cup DOMAIN results : t[1] # s
          /\ (Entered(s) /\ s > 1 /\ suites[s - 1].fixture) =>
                SuiteHookCalls("AfterAll", s - 1) = 1
    /\ pc = "run" =>
          /\ taskQueue = <<>>
          /\ \A e \in Executors : ~InTask(e) /\ ex[e].body # "running"

\* Two suites, both with a fixture: a worker is inside a task of the second
\* suite and the first suite has run a task.
C12_Witness ==
    /\ Len(suites) = 2
    /\ suites[1].fixture /\ suites[2].fixture
    /\ si = 2
    /\ \E w \in Workers : InTask(w)
    /\ \E t \in DOMAIN results : t[1] = 1

\* ---------------------------------------------------------------- C13
\* The repetition indexes run() starts a task for, for unit tc: they depend
\* on the unit's disabled flag, repetitions and nondeterminism flag and on
\* the mode, never on what a body does.
DispatchedReps(tc) ==
    IF tc.disabled THEN {}
    ELSE IF runConcurrently
      THEN (IF FanOut(tc) THEN 1..tc.repetitions ELSE {1})
      ELSE 1..SeqRepetitions(tc)

\* The repetition indexes of unit u of suite s that have a result.
FinishedReps(s, u) == { t[3] : t \in { x \in DOMAIN results : x[1] = s /\ x[2] = u } }

\* Task t reported a failure of any kind.
TaskFailed(t) ==
    \/ NLines("AssertionFailed", t) > 0
    \/ FailureKindsOf(t) # {}

\* C13: when main() has returned, every unit of every suite has run exactly
\* the tasks its dispatch fields call for, each with one call of its body,
\* whatever the tasks reported, and AfterAll of every suite with a fixture
\* has been called once.
C13_FailureStopsNothing ==
    pc = "exited" =>
        \A s \in 1..Len(suites) :
            /\ suites[s].fixture => SuiteHookCalls("AfterAll", s) = 1
            /\ \A u \in 1..Len(suites[s].testCases) :
                  /\ FinishedReps(s, u) = DispatchedReps(suites[s].testCases[u])
                  /\ \A r \in FinishedReps(s, u) :
                        /\ <<s, u, r>> \in DOMAIN invoked
                        /\ invoked[<<s, u, r>>] = 1

\* main() has returned; a task failed and a task of a later unit or of a
\* later suite has run.
C13_Witness ==
    /\ pc = "exited"
    /\ \E t, x \in DOMAIN results :
          /\ TaskFailed(t)
          /\ x[1] > t[1] \/ (x[1] = t[1] /\ x[2] > t[2])

\* ---------------------------------------------------------------- C14
\* The tasks run(false) runs for unit tc.
SequentialReps(tc) == IF tc.disabled THEN {} ELSE 1..SeqRepetitions(tc)

\* The number of lines of each kind run(false) writes for the task of unit
\* tc with repetition index r.
SequentialLines(tc, r, kind) ==
    LET c == CatchClauses(tc, tc.function.throws) IN
    CASE kind = "Running" -> 1
      [] kind = "AssertionFailed" -> FailingChecks(tc, r)
      [] kind = "TimedOut" -> IF Outlasts(tc) THEN 1 ELSE 0
      [] kind = "ExpectedNotThrown" ->
            IF tc.expectedExceptionTypeName # "" /\ ~c.caught THEN 1 ELSE 0
      [] OTHER -> IF c.line = kind THEN 1 ELSE 0

\* C14: run(true) and run(false) run the same tasks and write the same lines
\* for each: when main() has returned, in either mode, the tasks that have
\* run are those run(false) runs, and each has the lines run(false) writes
\* for it.
C14_ModesAgree ==
    pc = "exited" =>
        \A s \in 1..Len(suites) : \A u \in 1..Len(suites[s].testCases) :
            LET tc == suites[s].testCases[u] IN
            /\ FinishedReps(s, u) = SequentialReps(tc)
            /\ \A r \in SequentialReps(tc) : \A k \in ReportKinds \ {"Skipping"} :
                  NLines(k, <<s, u, r>>) = SequentialLines(tc, r, k)

\* The sequential half of C14, which holds: run(false) runs SequentialReps
\* and writes SequentialLines.
C14_SequentialReference == runConcurrently \/ C14_ModesAgree

\* C14 for registries whose units all have repetitions >= 1, which holds.
C14_PositiveRepetitions ==
    (\A s \in 1..Len(suites) : \A u \in 1..Len(suites[s].testCases) :
        suites[s].testCases[u].repetitions >= 1) => C14_ModesAgree

\* ---------------------------------------------------------------- C15
\* Number of calls of the task hook h on behalf of task t.
TaskHookCalls(h, t) ==
    IF <<h, t[1], t[2], t[3]>> \in DOMAIN hooks THEN hooks[<<h, t[1], t[2], t[3]>>] ELSE 0

\* The body of task t is running on some thread.
BodyRunning(t) ==
    /\ t[1] = si
    /\ \E e \in Executors : /\ ex[e].body = "running"
                             /\ ex[e].unit = t[2]
                             /\ ex[e].rep = t[3]

\* C15: in a suite with a fixture, a task whose body has been called has had
\* BeforeEach called once; AfterEach is never called twice for a task, and
\* when it has been called the body has been called and is running no more;
\* a task that is over has had both hooks called once, whatever its result;
\* and when main() has returned every task whose body was called is over.
C15_EachHooksOncePerTask ==
    /\ \A t \in DOMAIN invoked :
          suites[t[1]].fixture =>
              /\ TaskHookCalls("BeforeEach", t) = 1
              /\ TaskHookCalls("AfterEach", t) <= 1
              /\ TaskHookCalls("AfterEach", t) = 1 => ~BodyRunning(t)
              /\ pc = "exited" => t \in DOMAIN results
    /\ \A h \in DOMAIN hooks :
          h[1] = "AfterEach" => <<h[2], h[3], h[4]>> \in DOMAIN invoked
    /\ \A t \in DOMAIN results :
          suites[t[1]].fixture =>
              /\ t \in DOMAIN invoked
              /\ TaskHookCalls("BeforeEach", t) = 1
              /\ TaskHookCalls("AfterEach", t) = 1

\* A task of a suite with a fixture has timed out and is over, with both
\* hooks called once.
C15_Witness ==
    \E t \in DOMAIN results :
        /\ suites[t[1]].fixture
        /\ NLines("TimedOut", t) = 1
        /\ TaskHookCalls("BeforeEach", t) = 1
        /\ TaskHookCalls("AfterEach", t) = 1

\* ---------------------------------------------------------------- C16
\* Something of suite s has been dispatched: a worker of its pool has been
\* started, a task is queued or being run, or a task hook, a body call, a
\* result or a line of one of its units exists.
Dispatched(s) ==
    \/ /\ s = si
       /\ pc # "run"
       /\ \/ taskQueue # <<>>
          \/ \E e \in Executors : InTask(e) \/ ex[e].pc = "wait"
    \/ \E h \in DOMAIN hooks : h[2] = s /\ h[1] \in {"BeforeEach", "AfterEach"}
    \/ \E t \in DOMAIN invoked \cup DOMAIN results : t[1] = s
    \/ \E i \in DOMAIN out : out[i].suite = s /\ out[i].unit # 0

\* C16: BeforeAll of a suite with a fixture has been called once when the
\* suite has been entered and not at all before; nothing of the suite is
\* dispatched unless BeforeAll has been called.
C16_BeforeAllOnceAndFirst ==
    \A s \in 1..Len(suites) :
        suites[s].fixture =>
            /\ SuiteHookCalls("BeforeAll", s) = (IF Entered(s) THEN 1 ELSE 0)
            /\ Dispatched(s) => SuiteHookCalls("BeforeAll", s) = 1

\* In concurrent mode a worker is inside a task of the second suite, which
\* has a fixture whose BeforeAll has been called once.
C16_Witness ==
    /\ runConcurrently
    /\ si = 2
    /\ Len(suites) = 2
    /\ suites[2].fixture
    /\ SuiteHookCalls("BeforeAll", 2) = 1
    /\ \E w \in Workers : InTask(w)

\* ---------------------------------------------------------------- C17
\* The worker threads started for the current suite.
StartedWorkers == { w \in Workers : ex[w].pc # "notStarted" }

\* C17: every step that starts the pool, numThreads holding the reported
\* hardware count h, starts max(h, 2) workers.
C17_PoolSizeAtLeastTwo ==
    [][ pc = "createPool" =>
          Cardinality(StartedWorkers') = (IF numThreads > 2 THEN numThreads ELSE 2)
      ]_vars

\* C17 amended: every step that starts the pool, numThreads holding the
\* reported hardware count h, starts h workers when h is at least 1 and 2
\* workers when h is 0, and numThreads is then the number of workers.
C17_PoolSizeAmended ==
    [][ pc = "createPool" =>
          /\ Cardinality(StartedWorkers') = (IF numThreads = 0 THEN 2 ELSE numThreads)
          /\ numThreads' = Cardinality(StartedWorkers')
      ]_vars

\* The reported hardware count was 1: the only worker of the pool is inside
\* a task while run() waits for it.
C17_Witness ==
    /\ runConcurrently
    /\ pc = "join"
    /\ numThreads = 1
    /\ StartedWorkers = {1}
    /\ InTask(1)

\* ---------------------------------------------------------------- C18
\* C18: a failing check neither throws nor ends the body. While a task is
\* under way it has at most as many "Assertion failed" lines as its body has
\* failing checks; when it is over it has exactly that many, and what the
\* body does after its checks has happened: the exception it raises after
\* them has reached the catch clauses of executeTest.
C18_ChecksDoNotStopBody ==
    /\ \A i \in DOMAIN out :
          out[i].kind = "AssertionFailed" =>
              LET t == <<out[i].suite, out[i].unit, out[i].rep>> IN
              NLines("AssertionFailed", t) <= FailingChecks(UnitOf(t), t[3])
    /\ \A t \in DOMAIN results :
          LET tc == UnitOf(t)
              c == CatchClauses(tc, tc.function.throws) IN
          /\ NLines("AssertionFailed", t) = FailingChecks(tc, t[3])
          /\ c.line # "" => NLines(c.line, t) = 1

\* A task whose body fails two checks and then throws is over, with two
\* "Assertion failed" lines and the line of the exception.
C18_Witness ==
    \E t \in DOMAIN results :
        /\ FailingChecks(UnitOf(t), t[3]) = 2
        /\ UnitOf(t).function.throws = "logic_error"
        /\ NLines("AssertionFailed", t) = 2
        /\ NLines("UnexpectedException", t) = 1

\* ---------------------------------------------------------------- C19
\* The repetition indexes the body of unit u of suite s has been called with.
InvokedReps(s, u) == { t[3] : t \in { x \in DOMAIN invoked : x[1] = s /\ x[2] = u } }

\* C19: no body is called twice with the same index; when main() has
\* returned, the body of a non-disabled unit with repetitions = N >= 1 has
\* been called with each index of 1..N and no other, and the task of index k
\* has the "Assertion failed" lines of a body called with k; a unit like
\* TestRepeatedMixed then has one such line, written by the task of index 2.
C19_BodyGetsItsIndex ==
    /\ \A t \in DOMAIN invoked : invoked[t] = 1
    /\ pc = "exited" =>
          \A s \in 1..Len(suites) : \A u \in 1..Len(suites[s].testCases) :
              LET tc == suites[s].testCases[u] IN
              (~tc.disabled /\ tc.repetitions >= 1) =>
                  /\ InvokedReps(s, u) = 1..tc.repetitions
                  /\ \A k \in 1..tc.repetitions :
                        NLines("AssertionFailed", <<s, u, k>>) = FailingChecks(tc, k)
                  /\ tc = TestRepeatedMixed =>
                        /\ NUnitLines("AssertionFailed", s, u) = 1
                        /\ NLines("AssertionFailed", <<s, u, 2>>) = 1

\* run(true) is over for a registry holding TestRepeatedMixed: its body has
\* been called with 1, 2 and 3 and one "Assertion failed" line is written.
C19_Witness ==
    /\ runConcurrently
    /\ pc = "exited"
    /\ \E s \in 1..Len(suites) : \E u \in 1..Len(suites[s].testCases) :
          /\ suites[s].testCases[u] = TestRepeatedMixed
          /\ InvokedReps(s, u) = {1, 2, 3}
          /\ NUnitLines("AssertionFailed", s, u) = 1

\* ---------------------------------------------------------------- C20
\* Line a is of an earlier unit than line b, or of the same unit and an
\* earlier repetition.
Earlier(a, b) ==
    \/ a.suite < b.suite
    \/ a.suite = b.suite /\ a.unit < b.unit
    \/ a.suite = b.suite /\ a.unit = b.unit /\ a.rep < b.rep

\* C20: in sequential mode the "Running Test Case" and "Skipping Disabled
\* Test Case" lines appear in insertion order of the units, those of one unit
\* in ascending order of the repetition index, and no line of a unit comes
\* after a line of a later unit.
C20_SequentialOrder ==
    ~runConcurrently =>
        \A i, j \in DOMAIN out :
            (i < j /\ out[i].unit # 0 /\ out[j].unit # 0) =>
                /\ ~Earlier(out[j], out[i])
                /\ ({out[i].kind, out[j].kind} \subseteq {"Running", "Skipping"})
                      => Earlier(out[i], out[j])

\* run(false) is over: the first unit has run three repetitions, one of
\* which wrote an "Assertion failed" line, and a second unit has written
\* its line after them.
C20_Witness ==
    /\ ~runConcurrently
    /\ pc = "exited"
    /\ NRunning(1, 1, 1) = 1 /\ NRunning(1, 1, 2) = 1 /\ NRunning(1, 1, 3) = 1
    /\ NUnitLines("AssertionFailed", 1, 1) = 1
    /\ \E i \in DOMAIN out : /\ out[i].suite = 1 /\ out[i].unit = 2
                               /\ out[i].kind \in {"Running", "Skipping"}

\* ---------------------------------------------------------------- C21
\* Task a = <<unit, rep>> comes before task b in the order of the enqueue
\* loop: units in insertion order, the repetitions of a unit ascending.
TaskBefore(a, b) == a[1] < b[1] \/ (a[1] = b[1] /\ a[2] < b[2])

\* The tasks of the current suite a worker has taken from the queue.
Dequeued ==
    { <<ex[w].unit, ex[w].rep>> : w \in { v \in Workers : InTask(v) } } \cup
    { <<t[2], t[3]>> : t \in { x \in DOMAIN results : x[1] = si } }

\* C21: in concurrent mode the queue holds its tasks in the order of the
\* enqueue loop, every task in it was pushed by an earlier pass of the loop,
\* and every task a worker has taken comes before every task still queued:
\* a task enqueued before another is dequeued before it.
C21_FifoDispatch ==
    (runConcurrently /\ taskQueue # <<>>) =>
        /\ \A i \in 1..(Len(taskQueue) - 1) : TaskBefore(taskQueue[i], taskQueue[i + 1])
        /\ TaskBefore(taskQueue[Len(taskQueue)], <<ui, rep>>)
        /\ \A d \in Dequeued : TaskBefore(d, Head(taskQueue))

\* Two tasks are queued while one worker is inside a task and another task
\* of the suite is over.
C21_Witness ==
    /\ runConcurrently
    /\ Len(taskQueue) >= 2
    /\ \E w \in Workers : InTask(w)
    /\ \E t \in DOMAIN results : t[1] = si

\* ---------------------------------------------------------------- C22
\* The positions in out of the header lines "Running Test Suite" of suite s.
SuiteHeaders(s) ==
    { i \in DOMAIN out : out[i].kind = "RunningTestSuite" /\ out[i].suite = s }

\* C22: no step of run() changes the registry, and when run() returns it
\* has entered every registered suite exactly once, in registration order.
C22_RegistryUnchanged ==
    [][ /\ suites' = suites
        /\ pc' = "returned" =>
             /\ \A s \in 1..Len(suites) : Cardinality(SuiteHeaders(s)') = 1
             /\ \A s \in 1..(Len(suites) - 1) :
                  \A i \in SuiteHeaders(s)' : \A j \in SuiteHeaders(s + 1)' : i < j
      ]_vars

\* run() has returned for a registry of two suites, which is as registered.
C22_Witness ==
    /\ pc = "returned"
    /\ Len(suites) = 2
    /\ Cardinality(SuiteHeaders(1)) = 1
    /\ Cardinality(SuiteHeaders(2)) = 1

\* ---------------------------------------------------------------- C23
\* C23: in run(true) two tasks are inside runTest at the same time only if
\* the units of both are marked concurrent.
C23_OnlyConcurrentUnitsInParallel ==
    runConcurrently =>
        \A e, f \in Workers :
            (e # f /\ InTask(e) /\ InTask(f)) =>
                /\ Case(ex[e].unit).concurrent
                /\ Case(ex[f].unit).concurrent

\* ---------------------------------------------------------------- C24
\* C24: for every method name, getCallCount is the number of calls of the
\* log with that name, and for every argument list verifyCall is true
\* exactly when a call of the log has that name and that argument list.
C24_MockQueries ==
    \A methodName \in MethodNames :
        /\ getCallCount(callLog, methodName) =
             Cardinality({ i \in DOMAIN callLog : callLog[i].methodName = methodName })
        /\ \A args \in ArgLists :
             verifyCall(callLog, methodName, args) <=>
                 \E i \in DOMAIN callLog : /\ callLog[i].methodName = methodName
                                           /\ callLog[i].args = args

\* add3 was called twice, once with ("1", "2", "3"), and never with
\* ("3", "2", "1"); noArgsMethod was called once.
C24_Witness ==
    /\ getCallCount(callLog, "add3") = 2
    /\ getCallCount(callLog, "noArgsMethod") = 1
    /\ verifyCall(callLog, "add3", <<"1", "2", "3">>)
    /\ ~verifyCall(callLog, "add3", <<"3", "2", "1">>)

\* ---------------------------------------------------------------- C25
\* log is a prefix of longer.
IsPrefix(log, longer) ==
    /\ Len(log) <= Len(longer)
    /\ \A i \in DOMAIN log : longer[i] = log[i]

\* C25: no step removes or reorders a recorded call: the log before a step
\* is a prefix of the log after it, a verifyCall that was true stays true
\* and no getCallCount decreases.
C25_LogAppendOnly ==
    [][ /\ IsPrefix(callLog, callLog')
        /\ \A methodName \in MethodNames :
             /\ getCallCount(callLog', methodName) >= getCallCount(callLog, methodName)
             /\ \A args \in ArgLists :
                  verifyCall(callLog, methodName, args) =>
                      verifyCall(callLog', methodName, args)
      ]_vars

\* C25 amended: a step that is not a clearExpectations (which leaves the
\* log empty) appends one call at the end of the log and keeps the calls
\* recorded before it, in their order: no verifyCall turns false and no
\* getCallCount decreases.
C25_LogAppendOnlyUntilCleared ==
    [][ callLog' # <<>> =>
          /\ IsPrefix(callLog, callLog')
          /\ Len(callLog') = Len(callLog) + 1
          /\ \A methodName \in MethodNames :
               /\ getCallCount(callLog', methodName) >= getCallCount(callLog, methodName)
               /\ \A args \in ArgLists :
                    verifyCall(callLog, methodName, args) =>
                        verifyCall(callLog', methodName, args)
      ]_vars

\* The log holds two different calls, in the order they were recorded.
C25_Witness ==
    /\ Len(callLog) = 2
    /\ callLog[1] = [methodName |-> "add3", args |-> <<"1", "2", "3">>]
    /\ callLog[2] = [methodName |-> "noArgsMethod", args |-> <<>>]

\* ---------------------------------------------------------------- C26
\* C26: in run(true), once the pool of a suite is about to be created, the
\* workers exit, the join returns and AfterAll is called: run() gets to the
\* head of its suite loop again.
C26_ConcurrentSuiteTerminates ==
    (runConcurrently /\ pc = "createPool") ~> (pc = "run")

\* run(true) is past the join of a suite none of whose units is enabled: no
\* task was enqueued.
C26_Witness ==
    /\ runConcurrently
    /\ pc = "afterAll"
    /\ \A u \in 1..Len(Suite.testCases) : Case(u).disabled
    /\ \A t \in DOMAIN results : t[1] # si

\* The tasks the enqueue loop of the current suite has pushed so far.
Enqueued ==
    UNION { { <<u, r>> : r \in { k \in DispatchedReps(Case(u)) :
                                   u < ui \/ (FanOut(Case(u)) /\ k < rep) } } :
            u \in { v \in 1..Len(Suite.testCases) : v <= ui } }

\* The tasks in the queue, in the hands of a worker, and finished.
Queued == { taskQueue[i] : i \in DOMAIN taskQueue }
Taken == { <<ex[w].unit, ex[w].rep>> : w \in { v \in Workers : InTask(v) } }
Finished == { <<t[2], t[3]>> : t \in { x \in DOMAIN results : x[1] = si } }

\* C27: while a suite runs in concurrent mode, every task the enqueue loop
\* has pushed is in exactly one place (in the queue once, or with one worker,
\* or finished) and its body has been called at most once; done is set only
\* when the loop is past the last unit; a worker has exited only if done is
\* set and the queue is empty; after the join the queue is empty and every
\* pushed task is finished, its body called once.
C27_EachTaskOnce ==
    (runConcurrently /\ pc \in {"enqueue", "join", "afterAll"}) =>
        /\ Queued \cup Taken \cup Finished = Enqueued
        /\ \A i, j \in DOMAIN taskQueue : i # j => taskQueue[i] # taskQueue[j]
        /\ \A v, w \in Workers :
             (v # w /\ InTask(v) /\ InTask(w)) =>
                <<ex[v].unit, ex[v].rep>> # <<ex[w].unit, ex[w].rep>>
        /\ \A t \in Queued : t \notin Taken /\ t \notin Finished
        /\ \A t \in Taken : t \notin Finished
        /\ \A t \in DOMAIN invoked : invoked[t] = 1
        /\ done => ui > Len(Suite.testCases)
        /\ \A w \in Workers : ex[w].pc = "exited" => (done /\ taskQueue = <<>>)
        /\ pc = "afterAll" =>
              /\ taskQueue = <<>>
              /\ Finished = Enqueued
              /\ \A t \in Enqueued : <<si, t[1], t[2]>> \in DOMAIN invoked

\* All workers have exited after three tasks, one of them taken while another
\* was still running.
C27_Witness ==
    /\ runConcurrently
    /\ pc = "join"
    /\ \A w \in 1..numThreads : ex[w].pc = "exited"
    /\ Cardinality(Finished) = 3
    /\ \E i, j \in DOMAIN out : i < j /\ out[i].kind = "Running" /\ out[j].kind = "Running"
           /\ out[i].suite = si /\ out[j].suite = si /\ out[i].unit # out[j].unit

\* The unit declares an expected kind and its body raises another kind.
RaisesAnotherKind(tc) ==
    /\ tc.expectedExceptionTypeName # ""
    /\ tc.function.throws # "none"
    /\ ~Declares(tc, tc.function.throws)

\* C28: a finished task whose unit declares an expected kind and whose body
\* raised any other kind, a throwable that is not a std::exception included,
\* has an "Unexpected exception ..." line and is not recorded as passed.
C28_OnlyExactKindSatisfies ==
    \A t \in DOMAIN results :
        (RaisesAnotherKind(UnitOf(t)) /\ ~Outlasts(UnitOf(t))) =>
            /\ \E k \in { "UnexpectedException", "UnexpectedExceptionType",
                           "UnexpectedUnknownException" } : NLines(k, t) > 0
            /\ ~results[t]

\* The lines a body can cause: a failing check, a throw caught by executeTest.
BodyLineKinds == { "AssertionFailed", "UnexpectedException", "UnexpectedExceptionType",
                   "UnexpectedUnknownException" }

\* C29: no line caused by the body of a task (a failed check, an exception
\* it raised) comes after the "timed out" line of that task.
C29_NothingAfterTimedOut ==
    \A i, j \in DOMAIN out :
        ( /\ i < j
          /\ out[i].kind = "TimedOut"
          /\ out[j].suite = out[i].suite
          /\ out[j].unit = out[i].unit
          /\ out[j].rep = out[i].rep ) => out[j].kind \notin BodyLineKinds

\* The finished tasks of suite s whose body increments the fixture's member.
Writers(s) == { t \in DOMAIN results : t[1] = s /\ UnitOf(t).function.writes }

\* The body of the task of executor e outlasts its timeout and increments
\* the fixture's member after its sleep.
LateWriter(e) ==
    /\ InTask(e)
    /\ Outlasts(Case(ex[e].unit))
    /\ Case(ex[e].unit).function.writes

\* C30: the body of a timed-out task is not stopped. Its increment of the
\* fixture's member is not made before the "timed out" line of the task is
\* written; while the body is still running after that line it can go on to
\* its end; and every such task that has finished has made its increment.
C30_TimedOutBodyStillWrites ==
    /\ \A e \in Executors :
         LateWriter(e) =>
            /\ NLines("TimedOut", <<si, ex[e].unit, ex[e].rep>>) = 0 =>
                  sharedCounter[si] = Cardinality(Writers(si))
            /\ (ex[e].pc = "futureDtor" /\ ex[e].body = "running") =>
                  /\ NLines("TimedOut", <<si, ex[e].unit, ex[e].rep>>) = 1
                  /\ sharedCounter[si] = Cardinality(Writers(si))
                  /\ ENABLED (BodyCheck(e) \/ BodyEnd(e))
    /\ \A s \in DOMAIN suites : sharedCounter[s] >= Cardinality(Writers(s))

\* The "timed out" line of a task is written, the thread of the task is in
\* the destructor of the future, and the body has just made its increment.
C30_Witness ==
    \E e \in Executors :
        /\ LateWriter(e)
        /\ ex[e].pc = "futureDtor"
        /\ ex[e].body = "finished"
        /\ NLines("TimedOut", <<si, ex[e].unit, ex[e].rep>>) = 1
        /\ sharedCounter[si] = Cardinality(Writers(si)) + 1

\* ---------------------------------------------------------------- C32
\* The positions of runTest at which the body of the task may be running:
\* inside executeTest on the thread itself, in wait_for, and in the
\* destructor of the future.
BodyPositions == {"inline", "waitFor", "futureDtor"}

\* C32: in run(false) at most one body is running at any time, and a body is
\* running only while the caller is inside the task of that body, between
\* BeforeEach and the expected-failure check: never during BeforeAll,
\* AfterAll, BeforeEach or AfterEach, never once the loop is at a later
\* task, and that also after the "timed out" line of the task.
C32_SequentialOneBodyAtATime ==
    ~runConcurrently =>
        /\ \A w \in Workers : ex[w].body # "running"
        /\ ex[0].body = "running" =>
              /\ pc = "seqTask"
              /\ ex[0].pc \in BodyPositions
              /\ ex[0].unit = ui
              /\ ex[0].rep = rep

\* run(false): the "timed out" line of a task is written, its body is
\* still running and the caller is in the destructor of the future.
C32_Witness ==
    /\ ~runConcurrently
    /\ ex[0].pc = "futureDtor"
    /\ ex[0].body = "running"
    /\ NLines("TimedOut", <<si, ex[0].unit, ex[0].rep>>) = 1

\* ---------------------------------------------------------------- C33
\* The executors whose task has its body running.
RunningBodies == { e \in Executors : ex[e].body = "running" }

\* The workers that are in a task of a unit with a timeout.
TimedInFlight == { w \in Workers : InTask(w) /\ Case(ex[w].unit).timeout > 0 }

\* The threads std::async has created that have not finished executeTest.
AsyncThreads == { w \in Workers : /\ ex[w].body = "running"
                                   /\ Case(ex[w].unit).timeout > 0 }

\* C33: in run(true) the threads of the pool are at most numThreads; the
\* caller of run() runs no body and a worker runs at most the body of the
\* task it is in, so at most numThreads bodies run at once; a thread created
\* by std::async lives only while its worker is in that timed task, so the
\* threads created for the suite are at most numThreads plus the timed tasks
\* in flight, hence at most twice numThreads.
C33_ThreadsBounded ==
    (runConcurrently /\ pc \in {"enqueue", "join"}) =>
        /\ Cardinality(StartedWorkers) <= numThreads
        /\ ex[0].body # "running"
        /\ \A w \in Workers :
             ex[w].body = "running" => (InTask(w) /\ ex[w].pc \in BodyPositions)
        /\ Cardinality(RunningBodies) <= numThreads
        /\ AsyncThreads \subseteq TimedInFlight
        /\ Cardinality(StartedWorkers) + Cardinality(AsyncThreads)
              <= numThreads + Cardinality(TimedInFlight)
        /\ Cardinality(StartedWorkers) + Cardinality(AsyncThreads) <= 2 * numThreads

\* A pool of two workers, both with a body running, one of them on a thread
\* of std::async: three threads created for the suite.
C33_Witness ==
    /\ runConcurrently
    /\ numThreads = 2
    /\ Cardinality(RunningBodies) = 2
    /\ Cardinality(AsyncThreads) = 1
    /\ Cardinality(StartedWorkers) = 2

\* ---------------------------------------------------------------- C34
\* C34: when main() has returned, in either mode, the body of every
\* non-disabled unit whose repetitions is below 1 has been called exactly
\* once, with index 1, and its one task is over, whether or not the unit is
\* marked nondeterministic.
C34_BelowOneRunsOnce ==
    pc = "exited" =>
        \A s \in 1..Len(suites) : \A u \in 1..Len(suites[s].testCases) :
            LET tc == suites[s].testCases[u] IN
            (~tc.disabled /\ tc.repetitions < 1) =>
                /\ InvokedReps(s, u) = {1}
                /\ invoked[<<s, u, 1>>] = 1
                /\ FinishedReps(s, u) = {1}

\* ---------------------------------------------------------------- C31
\* C31: no task of a unit with timeout = 0 ever has a "timed out" line,
\* however long its body sleeps; and when main() has returned, in either
\* mode, a unit with a timeout whose body finishes in time and the same unit
\* registered without the timeout have run the same tasks, each task of the
\* one has the same number of lines of every kind as the task of the other
\* with the same index, none of them a "timed out" line, and the two have
\* the same result.
C31_InTimeAsUntimed ==
    /\ \A i \in DOMAIN out :
          out[i].kind = "TimedOut" => suites[out[i].suite].testCases[out[i].unit].timeout > 0
    /\ pc = "exited" =>
          \A s \in 1..Len(suites) : \A u, v \in 1..Len(suites[s].testCases) :
              LET tc == suites[s].testCases[u] IN
              ( /\ tc.timeout > 0
                /\ ~Outlasts(tc)
                /\ suites[s].testCases[v] = Untimed(tc) ) =>
                  /\ FinishedReps(s, u) = FinishedReps(s, v)
                  /\ \A r \in FinishedReps(s, u) :
                        /\ NLines("TimedOut", <<s, u, r>>) = 0
                        /\ \A k \in ReportKinds :
                              NLines(k, <<s, u, r>>) = NLines(k, <<s, v, r>>)
                        /\ results[<<s, u, r>>] = results[<<s, v, r>>]
                  /\ NUnitLines("Skipping", s, u) = NUnitLines("Skipping", s, v)

\* run(true) has returned; a timed unit whose body throws within the timeout
\* and its untimed twin have one "Unexpected exception" line each.
C31_Witness ==
    /\ pc = "exited"
    /\ runConcurrently
    /\ suites[1].testCases[1].timeout > 0
    /\ suites[1].testCases[2] = Untimed(suites[1].testCases[1])
    /\ NLines("UnexpectedException", <<1, 1, 1>>) = 1
    /\ NLines("UnexpectedException", <<1, 2, 1>>) = 1

\* ---------------------------------------------------------------- C35
\* No body of the registry uses the fixture or has its outcome decided by
\* the time it takes.
Independent ==
    \A s \in 1..Len(suites) : \A u \in 1..Len(suites[s].testCases) :
        LET tc == suites[s].testCases[u] IN
        /\ ~tc.function.writes
        /\ tc.timeout = 0
        /\ tc.function.sleep = 0

\* C35: when run(true) on such a registry has returned, its report is the
\* one fixed by the registry, whatever the pool size and the interleaving:
\* every suite has one header and one blank line, every disabled unit one
\* "Skipping" line, the tasks that have run are those the registry calls
\* for, each has the lines its body calls for, there is no other line, and
\* no line has its text mixed with that of another.
C35_ReportDeterministic ==
    (pc = "exited" /\ runConcurrently /\ Independent) =>
        /\ \A i \in DOMAIN out : ~out[i].torn
        /\ \A s \in 1..Len(suites) :
              /\ Cardinality(SuiteHeaders(s)) = 1
              /\ Cardinality({ i \in DOMAIN out : out[i].kind = "Blank" /\ out[i].suite = s }) = 1
              /\ \A u \in 1..Len(suites[s].testCases) :
                    LET tc == suites[s].testCases[u] IN
                    /\ NUnitLines("Skipping", s, u) = (IF tc.disabled THEN 1 ELSE 0)
                    /\ FinishedReps(s, u) = DispatchedReps(tc)
                    /\ \A r \in DispatchedReps(tc) : \A k \in ReportKinds \ {"Skipping"} :
                          NLines(k, <<s, u, r>>) = SequentialLines(tc, r, k)
        /\ \A i \in DOMAIN out :
              (out[i].unit # 0 /\ out[i].kind # "Skipping") =>
                  out[i].rep \in DispatchedReps(suites[out[i].suite].testCases[out[i].unit])

====
